---- MODULE Spec2Model ----
(***************************************************************************)
(* Model of .jenkins/scripts/global/nightly-report.py: the nightly report  *)
(* run (main) that scans the parent job's console logs, stores one row per *)
(* downstream build in the sqlite table "nightly", builds the dated report *)
(* with six days of history, commits and mails it.                         *)
(*                                                                         *)
(* A run is an operating-system process with its own sqlite connection.    *)
(* Rows it INSERTs live in the connection's implicit transaction until     *)
(* sqlitedb.commit() (line 418); a run that ends on an exception never     *)
(* reaches the commit and its rows are rolled back when the connection is  *)
(* dropped.  Steps are split at the blocking network calls.                *)
(***************************************************************************)
EXTENDS Integers, Sequences, FiniteSets, TLC

\* ---- bounds of the model ----
MaxLines == 3       \* console lines the CI server serves in one behaviour

Procs == {1, 2}

\* ---- values ----
NA == "N/A"
Unbound == "<unbound>"     \* a local name that was never assigned
Null == "<null>"           \* JSON null / Python None

ignore_nothing == {}

standalone_ignore_list == {"Send-Email"}

\* The calendar window the model works in; strptime/strftime convert
\* between a date string and its day ordinal inside the window.
Calendar ==
  << "2024-01-04", "2024-01-05", "2024-01-06", "2024-01-07",
     "2024-01-08", "2024-01-09", "2024-01-10", "2024-01-11" >>

strptime(s) == CHOOSE i \in 1..Len(Calendar) : Calendar[i] = s

strftime(i) == Calendar[i]

\* args.date values tried
TargetDates == {"2024-01-10", "2024-01-11"}

\* build['timestamp'] is in milliseconds; here counted from Calendar[1] 00:00 UTC
utcfromtimestamp_date(ts) == strftime(((ts \div 1000) \div 86400) + 1)

\* 2024-01-10 00:00:00.000, 2024-01-10 23:59:59.999, 2024-01-11 00:00:00.000
Timestamps == {518400000, 604799999, 604800000}

\* ---- console text ----
\* A console text is a sequence of lines.  A line either carries the
\* build-start marker "Starting building: ... <job> #<num>" or it does not.
StartLine(f, n) == [marker |-> TRUE, job |-> f, num |-> n]

NoiseLine == [marker |-> FALSE, job |-> "", num |-> ""]

Downstream ==
  { <<"Test-A", "1">>, <<"Test-A", "2">>, <<"Test-B", "1">>,
    <<"Test-B", "2">>, <<"Send-Email", "1">> }

Lines == {StartLine(b[1], b[2]) : b \in Downstream} \cup {NoiseLine}

Texts(k) == UNION {[1..n -> Lines] : n \in 0..k}

\* re.finditer(r'Starting building.* (\S+) #(\d+)', log): the (job, num)
\* groups of every marker line, in document order
RECURSIVE finditer(_)
finditer(log) ==
  IF log = <<>> THEN <<>>
  ELSE (IF Head(log).marker THEN << <<Head(log).job, Head(log).num>> >> ELSE <<>>)
       \o finditer(Tail(log))

not_re_job_match_empty(matches) == matches = <<>>

\* `if not re_job_match`: re_job_match is an iterator object, which is
\* always truthy, whatever it will yield
not_re_job_match(matches) == FALSE

\* ---- CI data: what job/<job>/<num>/api/json answers ----
ParametersAction(params) ==
  [class |-> "hudson.model.ParametersAction", parameters |-> params]

CauseAction == [class |-> "hudson.model.CauseAction", parameters |-> <<>>]

Param(n, v) == [name |-> n, value |-> v]

\* the finished build's payload
build_json(f, n) ==
  CASE f = "Test-A" /\ n = "1" ->
         [actions |-> << CauseAction,
                         ParametersAction(<< Param("UBUNTU_VERSION", "20.04"),
                                             Param("VM_GENERATION", "2") >>) >>,
          result |-> "SUCCESS"]
    [] f = "Test-A" /\ n = "2" ->
         [actions |-> << CauseAction,
                         ParametersAction(<< Param("UBUNTU_VERSION", "20.04"),
                                             Param("VM_GENERATION", "2") >>) >>,
          result |-> "FAILURE"]
    [] f = "Test-B" /\ n = "1" ->
         [actions |-> << CauseAction >>, result |-> "SUCCESS"]
    [] f = "Test-B" /\ n = "2" ->
         [actions |-> << ParametersAction(<< Param("UBUNTU_VERSION", "18.04") >>) >>,
          result |-> "FAILURE"]
    [] OTHER ->
         [actions |-> << CauseAction >>, result |-> "SUCCESS"]

\* a build that is still running reports "result": null
get_build_info(f, n, building) ==
  IF building THEN [build_json(f, n) EXCEPT !.result = Null] ELSE build_json(f, n)

get_build_url_blueocean(folder, job_name, job_number) ==
  "https://jenkins/blue/organizations/jenkins/" \o folder \o job_name
    \o "/detail/" \o job_name \o "/" \o job_number \o "/pipeline"

\* ---- lines 222-239: the two build parameters ----
json_parameters(info) ==
  SelectSeq(info.actions, LAMBDA x : x.class = "hudson.model.ParametersAction")

\* the value left in the local after lines 223-239, `prev` being what the
\* local held before (Unbound when it was never assigned)
ResolveParam(info, key, prev) ==
  LET jp == json_parameters(info) IN
  IF jp = <<>> THEN prev
  ELSE LET js == SelectSeq(jp[1].parameters, LAMBDA x : x.name = key) IN
       IF js = <<>> THEN NA
       ELSE IF "value" \in DOMAIN js[1] THEN js[1].value ELSE NA

\* lines 243-254
build_values(f, n, os, vm, info, date) ==
  [name |-> f, number |-> n,
   os |-> "Ubuntu " \o os, vm |-> "ACC-" \o vm,
   result |-> info.result,
   url |-> get_build_url_blueocean("Mystikos%2FStandalone-Pipelines%2F", f, n),
   date |-> date]

\* ---- the table "nightly" ----
SelectExists_never(tbl, f, n) == FALSE

\* SELECT ... WHERE name = f AND number = n; fetchone() is truthy
SelectExists(tbl, f, n) ==
  \E i \in 1..Len(tbl) : tbl[i].name = f /\ tbl[i].number = n

\* byte order of the strings that reach ORDER BY
Collation ==
  << "ACC-2", "ACC-N/A", "Send-Email", "Test-A", "Test-B",
     "Ubuntu 18.04", "Ubuntu 20.04", "Ubuntu N/A" >>

Rank(s) == CHOOSE i \in 1..Len(Collation) : Collation[i] = s

KeyLess(a, b) ==
  \/ Rank(a.name) < Rank(b.name)
  \/ a.name = b.name /\ Rank(a.os) < Rank(b.os)
  \/ a.name = b.name /\ a.os = b.os /\ Rank(a.vm) < Rank(b.vm)

RECURSIVE InsertSorted(_, _)
InsertSorted(r, s) ==
  IF s = <<>> THEN <<r>>
  ELSE IF KeyLess(r, Head(s)) THEN <<r>> \o s
  ELSE <<Head(s)>> \o InsertSorted(r, Tail(s))

OrderBy_rowid(rows) == rows

\* ORDER BY name, os, vm (rows with equal keys keep their rowid order)
RECURSIVE OrderBy(_)
OrderBy(rows) ==
  IF rows = <<>> THEN <<>>
  ELSE InsertSorted(rows[Len(rows)], OrderBy(SubSeq(rows, 1, Len(rows) - 1)))

QueryHistory_name_only(tbl, build, day) ==
  LET hit == SelectSeq(tbl, LAMBDA r : r.name = build.name /\ r.date = day)
  IN IF hit # <<>> THEN hit[1].result ELSE NA

\* lines 301-316: first row with the same name, os, vm on `day`, else 'N/A'
QueryHistory(tbl, build, day) ==
  LET hit == SelectSeq(tbl, LAMBDA r : /\ r.name = build.name
                                       /\ r.os = build.os
                                       /\ r.vm = build.vm
                                       /\ r.date = day)
  IN IF hit # <<>> THEN hit[1].result ELSE NA

HistoryDays == 6

history_dates_short(date) ==
  [day \in 1..(HistoryDays - 1) |-> strftime(strptime(date) - day)]

\* lines 410-413
history_dates(date) ==
  [day \in 1..HistoryDays |-> strftime(strptime(date) - day)]

generate_report_all_dates(date, tbl, history) ==
  LET base == OrderBy(tbl)
      days == {history[i] : i \in 1..Len(history)}
  IN [i \in 1..Len(base) |->
        [name |-> base[i].name, number |-> base[i].number,
         os |-> base[i].os, vm |-> base[i].vm,
         result |-> base[i].result, url |-> base[i].url,
         date |-> base[i].date,
         history |-> [d \in days |-> QueryHistory(tbl, base[i], d)]]]

\* lines 263-318
generate_report(date, tbl, history) ==
  LET base == OrderBy(SelectSeq(tbl, LAMBDA r : r.date = date))
      days == {history[i] : i \in 1..Len(history)}
  IN [i \in 1..Len(base) |->
        [name |-> base[i].name, number |-> base[i].number,
         os |-> base[i].os, vm |-> base[i].vm,
         result |-> base[i].result, url |-> base[i].url,
         date |-> base[i].date,
         history |-> [d \in days |-> QueryHistory(tbl, base[i], d)]]]

Commit_dropped(tbl, pending) == tbl

Commit_replaced(tbl, pending) == pending

\* sqlitedb.commit(): the transaction's rows become part of the table
Commit(tbl, pending) == tbl \o pending

\* ---- state ----
VARIABLES
  nightly,    \* committed rows of table "nightly", in rowid order
  run,        \* per process: the state of its run of main()
  fetches,    \* per downstream build: calls of get_build_info so far
  lines,      \* console lines served so far
  last,       \* summary of the run before, when it produced a report
  overlapped  \* whether a run ever started while another was collecting

vars == <<nightly, run, fetches, lines, last, overlapped>>

NoLast == [valid |-> FALSE, date |-> "", matches |-> <<>>, report |-> <<>>]

\* pc: where the process is in main(); outcome: how its last run ended
\* ("sent", or the exception that left main()); same, prev_report: whether
\* the run before reported on the same date from the same scanned log, and
\* what it reported
IdleRun ==
  [pc |-> "idle", date |-> "", log |-> <<>>, scanned |-> FALSE,
   matches |-> <<>>, idx |-> 1, os |-> Unbound, vm |-> Unbound,
   inserted |-> <<>>, report |-> <<>>, outcome |-> "none",
   same |-> FALSE, prev_report |-> <<>>]

Init ==
  /\ nightly = <<>>
  /\ run = [p \in Procs |-> IdleRun]
  /\ fetches = [b \in Downstream |-> 0]
  /\ lines = 0
  /\ last = NoLast
  /\ overlapped = FALSE

\* rows process p's connection sees: the committed ones and its own
\* uncommitted ones
TxnOpen(p) == run[p].pc \in {"loop", "get_build_info"}

Visible_committed(p) == nightly

Visible(p) == IF TxnOpen(p) THEN nightly \o run[p].inserted ELSE nightly

\* an exception leaves main(): the process ends, nothing was committed
Raise(p, exc) ==
  /\ run' = [run EXCEPT ![p].pc = "idle", ![p].outcome = exc,
                        ![p].os = Unbound, ![p].vm = Unbound]
  /\ last' = NoLast
  /\ UNCHANGED nightly

SingleWriter == \A q \in Procs : run[q].pc = "idle"

\* process q is in collect_downstream_builds or about to commit
Collecting(q) ==
  run[q].pc \in {"get_job_info", "get_build_log", "loop", "get_build_info"}

\* another connection holds the write lock of the database file: its
\* transaction began with an INSERT and has not ended
WriteLocked(p) ==
  \E q \in Procs \ {p} : TxnOpen(q) /\ run[q].inserted # <<>>

\* main() starts, lines 387-404
main(p, d) ==
  /\ run[p].pc = "idle"
  /\ run' = [run EXCEPT ![p] = [IdleRun EXCEPT !.pc = "get_job_info", !.date = d]]
  /\ overlapped' = (overlapped \/ \E q \in Procs \ {p} : Collecting(q))
  /\ UNCHANGED <<nightly, fetches, lines, last>>

StartRun(p, d) == SingleWriter /\ main(p, d)

\* line 193
GetJobInfo(p) ==
  /\ run[p].pc = "get_job_info"
  /\ \E ok \in BOOLEAN :
       IF ok
       THEN /\ run' = [run EXCEPT ![p].pc = "get_build_log"]
            /\ UNCHANGED <<nightly, last>>
       ELSE Raise(p, "HTTPError")
  /\ UNCHANGED <<fetches, lines, overlapped>>

\* lines 194-195, one build of the parent job
ParentBuild(p) ==
  /\ run[p].pc = "get_build_log"
  /\ \E ts \in Timestamps, text \in Texts(MaxLines - lines), ok \in BOOLEAN :
       IF utcfromtimestamp_date(ts) # run[p].date
       THEN UNCHANGED <<nightly, run, last, lines>>
       ELSE IF ~ok THEN Raise(p, "HTTPError") /\ UNCHANGED lines
       ELSE IF text = <<>> THEN Raise(p, "TypeError") /\ UNCHANGED lines
       ELSE /\ run' = [run EXCEPT ![p].log = @ \o text]
            /\ lines' = lines + Len(text)
            /\ UNCHANGED <<nightly, last>>
  /\ UNCHANGED <<fetches, overlapped>>

\* lines 197-201
ScanLog(p) ==
  /\ run[p].pc = "get_build_log"
  /\ LET m == finditer(run[p].log) IN
       IF not_re_job_match(m)
       THEN /\ run' = [run EXCEPT ![p].pc = "idle", ![p].outcome = "Exception",
                                  ![p].matches = m, ![p].scanned = TRUE]
            /\ last' = NoLast
            /\ UNCHANGED nightly
       ELSE /\ run' = [run EXCEPT
                 ![p].pc = "loop", ![p].matches = m,
                 ![p].scanned = TRUE, ![p].log = <<>>,
                 ![p].same = last.valid /\ last.date = run[p].date
                                        /\ last.matches = m]
            /\ UNCHANGED <<nightly, last>>
  /\ UNCHANGED <<fetches, lines, overlapped>>

\* lines 203-218
LoopHead(p) ==
  /\ run[p].pc = "loop"
  /\ run[p].idx <= Len(run[p].matches)
  /\ LET m == run[p].matches[run[p].idx] IN
       IF m[1] \in standalone_ignore_list
       THEN run' = [run EXCEPT ![p].idx = @ + 1]
       ELSE IF SelectExists(Visible(p), m[1], m[2])
       THEN run' = [run EXCEPT ![p].idx = @ + 1]
       ELSE run' = [run EXCEPT ![p].pc = "get_build_info"]
  /\ UNCHANGED <<nightly, fetches, lines, last, overlapped>>

\* lines 220-261
GetBuildInfo(p) ==
  /\ run[p].pc = "get_build_info"
  /\ \E resp \in {"ok", "building", "HTTPError"} :
       LET m == run[p].matches[run[p].idx]
           info == get_build_info(m[1], m[2], resp = "building")
           os == ResolveParam(info, "UBUNTU_VERSION", run[p].os)
           vm == ResolveParam(info, "VM_GENERATION", run[p].vm)
       IN /\ fetches' = [fetches EXCEPT ![m] = @ + 1]
          /\ IF resp = "HTTPError" THEN Raise(p, "HTTPError")
             ELSE IF os = Unbound \/ vm = Unbound THEN Raise(p, "UnboundLocalError")
             ELSE IF info.result = Null THEN Raise(p, "TypeError")
             ELSE IF WriteLocked(p) THEN Raise(p, "OperationalError")
             ELSE /\ run' = [run EXCEPT
                       ![p].pc = "loop", ![p].idx = @ + 1,
                       ![p].os = os, ![p].vm = vm,
                       ![p].inserted = Append(@, build_values(m[1], m[2], os, vm,
                                                              info, run[p].date))]
                  /\ UNCHANGED <<nightly, last>>
  /\ UNCHANGED <<lines, overlapped>>

\* collect_downstream_builds returns; lines 409-419
ReportAndCommit(p) ==
  /\ run[p].pc = "loop"
  /\ run[p].idx > Len(run[p].matches)
  /\ LET build_data == generate_report(run[p].date, Visible(p),
                                       history_dates(run[p].date))
     IN /\ run' = [run EXCEPT
              ![p].pc = "send_email", ![p].report = build_data,
              ![p].os = Unbound, ![p].vm = Unbound,
              ![p].prev_report = IF run[p].same THEN last.report ELSE <<>>]
        /\ last' = [valid |-> TRUE, date |-> run[p].date,
                    matches |-> run[p].matches, report |-> build_data]
  /\ nightly' = Commit(nightly, run[p].inserted)
  /\ UNCHANGED <<fetches, lines, overlapped>>

\* lines 421-438
SendEmail(p) ==
  /\ run[p].pc = "send_email"
  /\ \E ok \in BOOLEAN :
       run' = [run EXCEPT ![p].pc = "idle",
                          ![p].outcome = IF ok THEN "sent" ELSE "SMTPException"]
  /\ UNCHANGED <<nightly, fetches, lines, last, overlapped>>

\* one run at a time, by one process
Writer == CHOOSE p \in Procs : \A q \in Procs : p <= q

Next ==
  \/ \E d \in TargetDates : StartRun(Writer, d)
  \/ GetJobInfo(Writer)
  \/ ParentBuild(Writer)
  \/ ScanLog(Writer)
  \/ LoopHead(Writer)
  \/ GetBuildInfo(Writer)
  \/ ReportAndCommit(Writer)
  \/ SendEmail(Writer)

Spec == Init /\ [][Next]_vars

\* two invocations of the script against one database file, each running
\* main() once, started at any time
Invoke(p, d) == run[p].outcome = "none" /\ main(p, d)

NextConc ==
  \E p \in Procs :
    \/ \E d \in TargetDates : Invoke(p, d)
    \/ GetJobInfo(p)
    \/ ParentBuild(p)
    \/ ScanLog(p)
    \/ LoopHead(p)
    \/ GetBuildInfo(p)
    \/ ReportAndCommit(p)
    \/ SendEmail(p)

SpecConc == Init /\ [][NextConc]_vars

TypeOK ==
  /\ lines \in 0..MaxLines
  /\ \A p \in Procs : run[p].pc \in {"idle", "get_job_info", "get_build_log",
                                     "loop", "get_build_info", "send_email"}

\* ---- properties ----
Pair(r) == <<r.name, r.number>>

Pairs(tbl) == {Pair(tbl[i]) : i \in 1..Len(tbl)}

Rows(tbl) == {tbl[i] : i \in 1..Len(tbl)}

Unique(tbl) ==
  \A i, j \in 1..Len(tbl) : Pair(tbl[i]) = Pair(tbl[j]) => i = j

\* the rows run p has stored and not lost: none after an exception
Uncommitted(p) ==
  IF run[p].pc \in {"loop", "get_build_info"} THEN run[p].inserted ELSE <<>>

\* run p got as far as the report
Reported(p) ==
  \/ run[p].pc = "send_email"
  \/ run[p].pc = "idle" /\ run[p].outcome \in {"sent", "SMTPException"}

\* run p ended on an exception inside collect_downstream_builds
CollectErrors ==
  {"HTTPError", "TypeError", "UnboundLocalError", "Exception", "OperationalError"}

HasParam(info, key) ==
  \E i \in 1..Len(info.actions) :
    /\ info.actions[i].class = "hudson.model.ParametersAction"
    /\ \E k \in 1..Len(info.actions[i].parameters) :
         info.actions[i].parameters[k].name = key

\* C1: under single-writer runs no two stored rows, committed or in the
\* running transaction, share (name, number).
C1_Uniqueness == \A p \in Procs : Unique(nightly \o Uncommitted(p))

\* a run whose log names the same build twice, the build being one an
\* earlier run had stored, has finished collecting
C1_Witness ==
  \E p \in Procs :
    /\ run[p].pc = "send_email"
    /\ Len(run[p].matches) >= 2
    /\ run[p].matches[1] = run[p].matches[2]
    /\ run[p].matches[1] \in Pairs(nightly)
    /\ run[p].inserted = <<>>

\* C2: a run that follows a reported run for the same date with the same
\* scanned log inserts no row and returns the report of the run before.
C2_Idempotence ==
  \A p \in Procs :
    (Reported(p) /\ run[p].same) =>
      /\ run[p].inserted = <<>>
      /\ run[p].report = run[p].prev_report

C2_Witness ==
  \E p \in Procs :
    /\ Reported(p) /\ run[p].same
    /\ Len(run[p].report) >= 1
    /\ \E i \in 1..Len(run[p].matches) : run[p].matches[i] \in Pairs(nightly)

\* C3: a stored row of a build whose metadata lacks a parameter holds
\* the sentinel in that field, and no run ends on the unassigned local.
C3_ParameterFallback ==
  /\ \A p \in Procs : run[p].outcome # "UnboundLocalError"
  /\ \A p \in Procs : \A r \in Rows(nightly \o run[p].inserted) :
       /\ ~HasParam(build_json(r.name, r.number), "UBUNTU_VERSION")
            => r.os = "Ubuntu " \o NA
       /\ ~HasParam(build_json(r.name, r.number), "VM_GENERATION")
            => r.vm = "ACC-" \o NA

\* C4: over all runs, aborted ones included, get_build_info is called at
\* most once for a build.
C4_FetchAtMostOnce == \A b \in Downstream : fetches[b] <= 1

\* C5: the rows a run had inserted when it ended on an exception are in
\* the table afterwards, where the next run finds them.
C5_PartialProgressSurvives ==
  \A p \in Procs :
    (run[p].pc = "idle" /\ run[p].outcome \in CollectErrors) =>
      Rows(run[p].inserted) \subseteq Rows(nightly)

\* C6: from the moment the mail step begins, and whether it then fails or
\* not, the rows the run inserted are the last rows of the committed table.
C6_SinkFailureKeepsStore ==
  \A p \in Procs :
    Reported(p) =>
      /\ Len(run[p].inserted) <= Len(nightly)
      /\ SubSeq(nightly, Len(nightly) - Len(run[p].inserted) + 1, Len(nightly))
           = run[p].inserted

C6_Witness ==
  \E p \in Procs :
    /\ run[p].pc = "idle" /\ run[p].outcome = "SMTPException"
    /\ Len(run[p].inserted) >= 1

\* C7: every row of a report carries exactly six history entries, one for
\* each of the six dates before the run's date, each a result or "N/A".
C7_HistoryCompleteness ==
  \A p \in Procs :
    Reported(p) =>
      \A i \in 1..Len(run[p].report) :
        LET h == run[p].report[i].history IN
        /\ Cardinality(DOMAIN h) = 6
        /\ DOMAIN h = {Calendar[strptime(run[p].date) - k] : k \in 1..6}
        /\ \A d \in DOMAIN h :
             h[d] \in {"SUCCESS", "FAILURE", "ABORTED", "UNSTABLE", NA}

\* a reported row with a day of history that is not "N/A"
C7_Witness ==
  \E p \in Procs :
    /\ Reported(p)
    /\ \E i \in 1..Len(run[p].report) :
         \E d \in DOMAIN run[p].report[i].history :
           run[p].report[i].history[d] # NA

C9_ExclusionFilter ==
  /\ \A b \in Downstream : b[1] \in {"Send-Email"} => fetches[b] = 0
  /\ \A p \in Procs : \A r \in Rows(nightly \o run[p].inserted) :
       r.name \notin {"Send-Email"}
  /\ \A p \in Procs :
       Reported(p) =>
         \A i \in 1..Len(run[p].matches) :
           run[p].matches[i][1] \notin {"Send-Email"}
             => run[p].matches[i] \in Pairs(nightly)

\* a reported run whose log named an ignored build before a build it stored
C9_Witness ==
  \E p \in Procs :
    /\ Reported(p)
    /\ \E i, j \in 1..Len(run[p].matches) :
         /\ i < j
         /\ run[p].matches[i][1] = "Send-Email"
         /\ run[p].matches[j] \in Pairs(run[p].inserted)

\* C10: the rows of a report ascend by (name, os, vm).
C10_ReportSorted ==
  \A p \in Procs :
    Reported(p) =>
      \A i, j \in 1..Len(run[p].report) :
        i < j => ~KeyLess(run[p].report[j], run[p].report[i])

\* a report of two rows that were inserted by different runs in the
\* opposite order
C10_Witness ==
  \E p \in Procs :
    /\ Reported(p)
    /\ Len(run[p].report) = 2
    /\ Len(run[p].inserted) = 1
    /\ Len(nightly) = 2
    /\ Pair(nightly[1]) = Pair(run[p].report[2])
    /\ Pair(nightly[2]) = Pair(run[p].report[1])
    /\ KeyLess(run[p].report[1], run[p].report[2])

\* C11: no step changes or removes a committed row: the table before a
\* step is a prefix of the table after it, so the table a run leaves
\* holds every row it found, field for field.
C11_AppendOnly ==
  [][/\ Len(nightly') >= Len(nightly)
     /\ SubSeq(nightly', 1, Len(nightly)) = nightly]_vars

\* a run has committed rows of its own behind the rows it found
C11_Witness ==
  \E p \in Procs :
    /\ Reported(p)
    /\ run[p].inserted # <<>>
    /\ Len(nightly) > Len(run[p].inserted)
    /\ SubSeq(nightly, Len(nightly) - Len(run[p].inserted) + 1, Len(nightly))
         = run[p].inserted

\* C12: a run does not end on the failed request for one downstream
\* build: once its log is scanned, no run leaves main() on an HTTPError.
C12_SkipAndContinue ==
  \A p \in Procs :
    (run[p].pc = "idle" /\ run[p].scanned) => run[p].outcome # "HTTPError"

\* C13: two committed rows share (name, number) only when a run started
\* while another was still collecting; with one run at a time the table
\* never holds such rows.  The witness is the interleaving in which both
\* runs pass the exists check for the same build and both insert it.
C13_RaceNeedsOverlap == ~Unique(nightly) => overlapped

\* both runs inserted the same build and both committed it
C13_Witness ==
  \E p, q \in Procs :
    /\ p # q
    /\ Reported(p) /\ Reported(q)
    /\ \E b \in Pairs(run[p].inserted) \cap Pairs(run[q].inserted) :
         \E i, j \in 1..Len(nightly) :
           i < j /\ Pair(nightly[i]) = b /\ Pair(nightly[j]) = b

\* C14: the os and vm of a stored row are what lines 223-239 yield from
\* the metadata of the row's own build, whatever the two locals held when
\* its iteration began.
C14_NoCarryOver ==
  \A p \in Procs : \A r \in Rows(nightly \o run[p].inserted) :
    \A prev \in {NA, "18.04", "20.04", "2"} :
      LET info == get_build_info(r.name, r.number, FALSE) IN
        /\ r.os = "Ubuntu " \o ResolveParam(info, "UBUNTU_VERSION", prev)
        /\ r.vm = "ACC-" \o ResolveParam(info, "VM_GENERATION", prev)

\* C15: a row a run inserts has a (name, number) the run scanned, os and
\* vm built from the build's UBUNTU_VERSION and VM_GENERATION, the result
\* the CI system reports and the run's date; and the report of a run that
\* found the table empty has one row per inserted row, each with "N/A"
\* under all six history dates.
C15_RecordAssembly ==
  \A p \in Procs :
    /\ \A r \in Rows(run[p].inserted) :
         LET info == build_json(r.name, r.number) IN
           /\ \E i \in 1..Len(run[p].matches) : run[p].matches[i] = Pair(r)
           /\ r.os = "Ubuntu " \o ResolveParam(info, "UBUNTU_VERSION", NA)
           /\ r.vm = "ACC-" \o ResolveParam(info, "VM_GENERATION", NA)
           /\ r.result = info.result
           /\ r.date = run[p].date
    /\ (Reported(p) /\ nightly = run[p].inserted) =>
         /\ Len(run[p].report) = Len(run[p].inserted)
         /\ \A i \in 1..Len(run[p].report) :
              /\ Cardinality(DOMAIN run[p].report[i].history) = HistoryDays
              /\ \A d \in DOMAIN run[p].report[i].history :
                   run[p].report[i].history[d] = NA

\* C16: in a report, the entry of a row under a history date d is the
\* result of a stored row with the same (name, os, vm) and date d when the
\* table holds one, and "N/A" exactly when it holds none.
C16_HistoryLookup ==
  \A p \in Procs :
    Reported(p) =>
      \A i \in 1..Len(run[p].report) :
        LET row == run[p].report[i] IN
        \A d \in DOMAIN row.history :
          LET same == {r \in Rows(nightly) : /\ r.name = row.name
                                             /\ r.os = row.os
                                             /\ r.vm = row.vm
                                             /\ r.date = d}
          IN /\ same # {} => \E r \in same : row.history[d] = r.result
             /\ (row.history[d] = NA) <=> (same = {})

\* a report row with the result of a stored row of the same (name, os,
\* vm) under one history date and "N/A" under another
C16_Witness ==
  \E p \in Procs :
    /\ Reported(p)
    /\ \E i \in 1..Len(run[p].report) :
         LET row == run[p].report[i] IN
         \E d, e \in DOMAIN row.history :
           /\ row.history[e] = NA
           /\ row.history[d] # NA
           /\ \E r \in Rows(nightly) :
                /\ r.name = row.name /\ r.os = row.os /\ r.vm = row.vm
                /\ r.date = d /\ r.result = row.history[d]

\* C17: the rows of a report, history aside, are exactly the stored rows
\* whose date is the run's date, those of earlier runs included; a build
\* the log names that is stored under another date is not in the report.
C17_BaseRowsByDate ==
  \A p \in Procs :
    Reported(p) =>
      LET base == {r \in Rows(nightly) : r.date = run[p].date}
          shown == {[name |-> x.name, number |-> x.number, os |-> x.os,
                     vm |-> x.vm, result |-> x.result, url |-> x.url,
                     date |-> x.date] : x \in Rows(run[p].report)}
      IN /\ shown = base
         /\ Len(run[p].report) = Cardinality(base)
         /\ \A i \in 1..Len(run[p].matches) :
              (\E r \in Rows(nightly) : Pair(r) = run[p].matches[i]
                                        /\ r.date # run[p].date)
                => run[p].matches[i] \notin Pairs(run[p].report)

\* the log of a reported run names a build stored under another date, and
\* the report shows a row an earlier run stored under the run's date
C17_Witness ==
  \E p \in Procs :
    /\ Reported(p)
    /\ \E i \in 1..Len(run[p].matches) :
         \E r \in Rows(nightly) :
           Pair(r) = run[p].matches[i] /\ r.date # run[p].date
    /\ \E i \in 1..Len(run[p].report) :
         Pair(run[p].report[i]) \notin Pairs(run[p].inserted)

\* C18: a build the CI system reports with a null result is stored: no run
\* ends on a TypeError once its log is scanned.
C18_NullResultStorable ==
  \A p \in Procs :
    (run[p].pc = "idle" /\ run[p].scanned) => run[p].outcome # "TypeError"

\* C19: a parent build of the target date with empty console text adds
\* nothing to the log and the run goes on: no run ends on a TypeError
\* while it concatenates the parents' logs.
C19_EmptyLogNeverRaises ==
  \A p \in Procs :
    (run[p].pc = "idle" /\ ~run[p].scanned) => run[p].outcome # "TypeError"
====
